---- MODULE Spec2Model ----
(***************************************************************************)
(* A model of packages/runtime/src/templating/rendering-engine.ts:         *)
(* the RenderingEngine's three identity-keyed caches, templateFromSource,  *)
(* applyRuntimeBehavior, the two templates' render, the render context     *)
(* with its five scoped providers, InstanceProvider, ViewFactoryProvider   *)
(* and the intrusive bind/attach lists.                                    *)
(***************************************************************************)
EXTENDS Integers, Sequences, FiniteSets, TLC

(***************************************************************************)
(* JavaScript values.  Every value is a tagged record, so that undefined,  *)
(* null, the empty string and object references stay distinct and can be   *)
(* compared with each other.                                               *)
(***************************************************************************)
Undefined == [t |-> "undefined"]
Null == [t |-> "null"]
Str(s) == [t |-> "string", s |-> s]
Ref(kind, id) == [t |-> kind, id |-> id]

\* JavaScript truthiness of the values that occur: !v
Falsy(v) == v \in {Undefined, Null, Str("")}

\* A thrown Reporter.error(code, arg) and a thrown TypeError (property read
\* on null or undefined).
ReporterError(code, arg) == [t |-> "Reporter.error", code |-> code, arg |-> arg]
TypeError == [t |-> "TypeError"]
IsThrow(v) == v.t \in {"Reporter.error", "TypeError"}

defaultCompilerName == Str("default")

(***************************************************************************)
(* Bounds of the model.                                                    *)
(***************************************************************************)
\* CompiledTemplate instances (and their render contexts) ever constructed
MaxTemplates == 2
\* calls of one collaborator (compile, buildTemplateDefinition, new ViewFactory)
\* counted per definition
MaxInvoked == 2
\* render contexts in existence
MaxContexts == 2
\* calls of addBindable and addAttachable
MaxAdds == 4
\* node sequences made by the factories of the compiled templates
MaxSequences == 3
\* calls of applyRuntimeBehavior
MaxApplies == 3

(***************************************************************************)
(* The definitions the callers hold.  A definition is identified by its    *)
(* reference Ref("def", i); DefTable[i] holds its fields.  Definition 4 is *)
(* a shorthand (partial) ITemplateDefinition, as getViewFactory and the    *)
(* replaceable parts accept.  Definition 3 has no view: its template is   *)
(* the payload its author gave it, which is absent, null or empty.         *)
(***************************************************************************)
VARIABLE payload   \* the template field of definition 3, as it was written

Build(required, compiler) == [t |-> "build", required |-> required, compiler |-> compiler]

DefTable ==
  << [name |-> Str("a"), template |-> Str("<a>"), build |-> Build(TRUE, Undefined),
      cache |-> Undefined, dependencies |-> {Ref("resource", 1)}],
     [name |-> Str("b"), template |-> Str("<b>"), build |-> Build(TRUE, Str("aot")),
      cache |-> Undefined, dependencies |-> {}],
     [name |-> Str("c"), template |-> payload, build |-> Build(TRUE, Str("aot")),
      cache |-> Undefined, dependencies |-> {Ref("resource", 1)}],
     [name |-> Undefined, template |-> Str("<d>"), build |-> Undefined,
      cache |-> Undefined, dependencies |-> {}] >>

DefIds == DOMAIN DefTable
DefRefs == {Ref("def", i) : i \in DefIds}
\* TemplateDefinition (all fields present), the parameter type of getElementTemplate
FullDefRefs == {Ref("def", i) : i \in {j \in DefIds : DefTable[j].build # Undefined}}

\* The lists of ITemplateCompiler names an engine may be constructed with.
CompilerLists == { <<>>, <<"default">>, <<"default", "aot">> }

ComponentTypes == {Ref("type", 1)}

RootContainer == Ref("context", 0)
noViewTemplate == Ref("template", 0)

VARIABLES
  compilers,        \* RenderingEngine.compilers: the registered compiler names
  templateLookup,   \* RenderingEngine.templateLookup: def id -> template id
  factoryLookup,    \* RenderingEngine.factoryLookup: def id -> factory id
  behaviorLookup,   \* RenderingEngine.behaviorLookup: type id -> behavior id
  templates,        \* the CompiledTemplate instances constructed, by id
  factories,        \* the ViewFactory instances in existence, by id
  contexts,         \* the render contexts created by createRenderContext, by id
  invoked,          \* calls of the collaborators, per step and definition
  returned,         \* per entry point and definition: the instances returned
  ip,               \* an InstanceProvider constructed on its own
  ipHistory,        \* what was done to it last: new, prepare(value) or dispose
  vfp,              \* a ViewFactoryProvider constructed on its own
  vfpHistory,       \* what was done to it last: new, prepare(...) or dispose
  renderables,      \* per renderable: the heads and tails of its two lists
  nodes,            \* per list node: its $prev/$next links of both kinds
  added,            \* per list kind and renderable: the nodes added, in order
  rendered,         \* per renderable: its $nodes and $context fields
  sequences,        \* the node sequences made by factory.createNodeSequence()
  behaviors,        \* the RuntimeBehavior instances created, by id
  applied,          \* the calls of RuntimeBehavior.applyTo, in order
  call,             \* the last call made: operation and arguments
  ret               \* what the last call returned or threw

engineState == <<compilers, templateLookup, factoryLookup, behaviorLookup,
                 templates, factories, contexts>>
engineVars == <<engineState, invoked, returned>>
providerVars == <<ip, ipHistory, vfp, vfpHistory>>
listVars == <<renderables, nodes, added>>
renderVars == <<rendered, sequences, payload>>
behaviorVars == <<behaviors, applied>>
vars == <<compilers, templateLookup, factoryLookup, behaviorLookup, templates,
          factories, contexts, invoked, returned, ip, ipHistory, vfp,
          vfpHistory, renderables, nodes, added, rendered, sequences,
          behaviors, applied, payload, call, ret>>

EntryPoints == {"getElementTemplate", "getViewFactory"}
Steps == {"compile:getElementTemplate", "compile:getViewFactory",
          "buildTemplateDefinition", "new ViewFactory", "throw:getViewFactory"}

(***************************************************************************)
(* InstanceProvider                                                        *)
(***************************************************************************)
IP_new == [instance |-> Null]

IP_prepare(p, instance) == [p EXCEPT !.instance = instance]

IP_resolve(p) ==
  IF p.instance = Undefined THEN ReporterError(50, Undefined) ELSE p.instance

IP_dispose(p) == [p EXCEPT !.instance = Null]

(***************************************************************************)
(* ViewFactoryProvider.  A parts object is a set of <<name, definition>>   *)
(* pairs; PLATFORM.emptyObject is the parts object with no entry.          *)
(***************************************************************************)
Parts(entries) == [t |-> "parts", entries |-> entries]
emptyObject == Parts({})

\* obj[name] on a parts object
PartsGet(obj, name) ==
  IF \E e \in obj.entries : e[1] = name
    THEN (CHOOSE e \in obj.entries : e[1] = name)[2]
    ELSE Undefined

VFP_new == [factory |-> Undefined, replacements |-> Undefined]

VFP_prepare(p, factory, parts) ==
  [factory |-> factory, replacements |-> IF Falsy(parts) THEN emptyObject ELSE parts]

VFP_dispose(p) == [factory |-> Null, replacements |-> Null]

\* resolve without the lookup of the replacement
VFP_lookup_IgnoresReplacements(p) ==
  LET factory == p.factory IN
  IF factory = Undefined THEN [kind |-> "throw", value |-> ReporterError(50, Undefined)]
  ELSE IF factory = Null THEN [kind |-> "throw", value |-> TypeError]
  ELSE IF Falsy(factories[factory.id].name)
    THEN [kind |-> "throw", value |-> ReporterError(51, Undefined)]
    ELSE [kind |-> "default", value |-> p.factory]

\* resolve up to its call of the engine: what it throws, the default factory
\* it returns, or the replacement definition it asks the engine for
VFP_lookup(p) ==
  LET factory == p.factory IN
  IF factory = Undefined THEN [kind |-> "throw", value |-> ReporterError(50, Undefined)]
  ELSE IF factory = Null THEN [kind |-> "throw", value |-> TypeError]
  ELSE LET name == factories[factory.id].name IN
    IF Falsy(name) THEN [kind |-> "throw", value |-> ReporterError(51, Undefined)]
    ELSE IF p.replacements \in {Null, Undefined} THEN [kind |-> "throw", value |-> TypeError]
    ELSE LET found == PartsGet(p.replacements, name.s) IN
      IF ~Falsy(found) THEN [kind |-> "replacement", value |-> found]
      ELSE [kind |-> "default", value |-> p.factory]

(***************************************************************************)
(* createRenderContext: the state of a render context                      *)
(***************************************************************************)
NewContext(parentRenderContext, dependencies) ==
  [parent |-> parentRenderContext,
   renderableProvider |-> IP_new,
   elementProvider |-> IP_new,
   instructionProvider |-> IP_new,
   factoryProvider |-> VFP_new,
   renderLocationProvider |-> IP_new,
   registered |-> dependencies]

(***************************************************************************)
(* The collaborators of the engine                                         *)
(***************************************************************************)
Num(n) == [t |-> "number", n |-> n]

\* buildTemplateDefinition(null, definition): the fields given are kept, the
\* others get their defaults
Normalize(def) ==
  [name |-> IF Falsy(def.name) THEN Str("unnamed") ELSE def.name,
   template |-> IF Falsy(def.template) THEN Null ELSE def.template,
   build |-> IF def.build = Undefined THEN Build(FALSE, Undefined) ELSE def.build,
   cache |-> IF def.cache = Undefined THEN Num(0) ELSE def.cache,
   dependencies |-> def.dependencies]

\* compiler.compile(definition, resources, flags): the finalized definition
Compile(def) == [def EXCEPT !.build = Build(FALSE, def.build.compiler)]

\* the constructor's reduce over templateCompilers: the names registered
CompilerRegistry(templateCompilers) ==
  {templateCompilers[i] : i \in DOMAIN templateCompilers}

\* templateFromSource looking for the compiler before it looks at the template
templateFromSource_CompilerCheckFirst(definition, parentContext) ==
  LET parent == IF Falsy(parentContext) THEN RootContainer ELSE parentContext
      compilerName == IF Falsy(definition.build.compiler)
                        THEN defaultCompilerName
                        ELSE definition.build.compiler
  IN IF Falsy(definition) THEN [kind |-> "noViewTemplate"]
     ELSE IF definition.build.required /\ compilerName.s \notin compilers
       THEN [kind |-> "throw", value |-> ReporterError(20, compilerName)]
     ELSE IF ~Falsy(definition.template)
       THEN [kind |-> "CompiledTemplate", compiled |-> definition.build.required,
             parent |-> parent,
             definition |-> IF definition.build.required
                              THEN Compile(definition) ELSE definition]
     ELSE [kind |-> "noViewTemplate"]

\* templateFromSource without the check that the compiler is registered
templateFromSource_NoCompilerCheck(definition, parentContext) ==
  LET parent == IF Falsy(parentContext) THEN RootContainer ELSE parentContext IN
  IF ~Falsy(definition) /\ ~Falsy(definition.template)
  THEN [kind |-> "CompiledTemplate", compiled |-> definition.build.required,
        parent |-> parent,
        definition |-> IF definition.build.required
                         THEN Compile(definition) ELSE definition]
  ELSE [kind |-> "noViewTemplate"]

(***************************************************************************)
(* RenderingEngine.templateFromSource, up to the construction of the       *)
(* CompiledTemplate: what it throws, or which template it returns.         *)
(***************************************************************************)
templateFromSource(definition, parentContext) ==
  LET parent == IF Falsy(parentContext) THEN RootContainer ELSE parentContext IN
  IF ~Falsy(definition) /\ ~Falsy(definition.template)
  THEN IF definition.build.required
       THEN LET compilerName == IF Falsy(definition.build.compiler)
                                  THEN defaultCompilerName
                                  ELSE definition.build.compiler
            IN IF compilerName.s \notin compilers
                 THEN [kind |-> "throw", value |-> ReporterError(20, compilerName)]
                 ELSE [kind |-> "CompiledTemplate", compiled |-> TRUE,
                       parent |-> parent, definition |-> Compile(definition)]
       ELSE [kind |-> "CompiledTemplate", compiled |-> FALSE,
             parent |-> parent, definition |-> definition]
  ELSE [kind |-> "noViewTemplate"]

\* bookkeeping of the collaborators called and of the instances returned
Count(inv, cond, step, d) == IF cond THEN [inv EXCEPT ![<<step, d>>] = @ + 1] ELSE inv
Record(entry, d, id) == [returned EXCEPT ![<<entry, d>>] = @ \cup {id}]
Uncapped(step, d) == invoked[<<step, d>>] < MaxInvoked

\* return null: the result for a falsy definition
FalsyDefinitionResult_Undefined == Undefined
FalsyDefinitionResult == Null

\* this.templateLookup.set(definition, found)
TemplateLookupSet_Dropped(d, id) == templateLookup
TemplateLookupSet(d, id) == (d :> id) @@ templateLookup

\* this.factoryLookup.set(definition, factory)
FactoryLookupSet_Dropped(d, id) == factoryLookup
FactoryLookupSet(d, id) == (d :> id) @@ factoryLookup

\* the construction of the template without componentType.register
ConstructTemplate_NoRegister(out, componentType) ==
  /\ Len(templates) < MaxTemplates
  /\ Len(contexts) < MaxContexts
  /\ templates' = Append(templates,
        [definition |-> out.definition,
         renderContext |-> Ref("context", Len(contexts) + 1)])
  /\ contexts' = Append(contexts,
        NewContext(out.parent, out.definition.dependencies))

\* new CompiledTemplate(engine, parent, definition), with the render context
\* its constructor creates; componentType is registered into it when given
ConstructTemplate(out, componentType) ==
  /\ Len(templates) < MaxTemplates
  /\ Len(contexts) < MaxContexts
  /\ templates' = Append(templates,
        [definition |-> out.definition,
         renderContext |-> Ref("context", Len(contexts) + 1)])
  /\ contexts' = Append(contexts,
        LET c == NewContext(out.parent, out.definition.dependencies)
        IN IF ~Falsy(componentType)
             THEN [c EXCEPT !.registered = @ \cup {componentType}]
             ELSE c)

(***************************************************************************)
(* RenderingEngine.getElementTemplate                                      *)
(***************************************************************************)
getElementTemplate(definition, componentType) ==
  IF Falsy(definition)
  THEN ret' = FalsyDefinitionResult /\ UNCHANGED engineVars
  ELSE LET d == definition.id IN
    IF d \in DOMAIN templateLookup
    THEN /\ ret' = Ref("template", templateLookup[d])
         /\ returned' = Record("getElementTemplate", d, templateLookup[d])
         /\ UNCHANGED <<engineState, invoked>>
    ELSE LET out == templateFromSource(DefTable[d], Undefined) IN
      CASE out.kind = "throw" ->
             ret' = out.value /\ UNCHANGED engineVars
        [] out.kind = "noViewTemplate" ->
             /\ templateLookup' = TemplateLookupSet(d, noViewTemplate.id)
             /\ ret' = noViewTemplate
             /\ returned' = Record("getElementTemplate", d, noViewTemplate.id)
             /\ UNCHANGED <<compilers, factoryLookup, behaviorLookup, templates,
                            factories, contexts, invoked>>
        [] out.kind = "CompiledTemplate" ->
             /\ ConstructTemplate(out, componentType)
             /\ Uncapped("compile:getElementTemplate", d)
             /\ invoked' = Count(invoked, out.compiled, "compile:getElementTemplate", d)
             /\ templateLookup' = TemplateLookupSet(d, Len(templates) + 1)
             /\ ret' = Ref("template", Len(templates) + 1)
             /\ returned' = Record("getElementTemplate", d, Len(templates) + 1)
             /\ UNCHANGED <<compilers, factoryLookup, behaviorLookup, factories>>

(***************************************************************************)
(* RenderingEngine.getViewFactory                                          *)
(***************************************************************************)
getViewFactory(definition, parentContext) ==
  IF Falsy(definition)
  THEN ret' = FalsyDefinitionResult /\ UNCHANGED engineVars
  ELSE LET d == definition.id IN
    IF d \in DOMAIN factoryLookup
    THEN /\ ret' = Ref("factory", factoryLookup[d])
         /\ returned' = Record("getViewFactory", d, factoryLookup[d])
         /\ UNCHANGED <<engineState, invoked>>
    ELSE LET validSource == Normalize(DefTable[d])
             out == templateFromSource(validSource, parentContext)
             normalized == Count(invoked, TRUE, "buildTemplateDefinition", d)
         IN
      /\ Uncapped("buildTemplateDefinition", d)
      /\ CASE out.kind = "throw" ->
             /\ ret' = out.value
             /\ invoked' = Count(normalized, TRUE, "throw:getViewFactory", d)
             /\ UNCHANGED <<engineState, returned>>
        [] out.kind \in {"noViewTemplate", "CompiledTemplate"} ->
             /\ IF out.kind = "CompiledTemplate"
                  THEN ConstructTemplate(out, Undefined)
                  ELSE UNCHANGED <<templates, contexts>>
             /\ Uncapped("new ViewFactory", d)
             /\ invoked' = Count(Count(normalized,
                                       out.kind = "CompiledTemplate" /\ out.compiled,
                                       "compile:getViewFactory", d),
                                 TRUE, "new ViewFactory", d)
             /\ factories' = Append(factories,
                  [name |-> validSource.name,
                   template |-> IF out.kind = "CompiledTemplate"
                                  THEN Ref("template", Len(templates) + 1)
                                  ELSE noViewTemplate,
                   cacheSize |-> validSource.cache])
             /\ factoryLookup' = FactoryLookupSet(d, Len(factories) + 1)
             /\ ret' = Ref("factory", Len(factories) + 1)
             /\ returned' = Record("getViewFactory", d, Len(factories) + 1)
             /\ UNCHANGED <<compilers, templateLookup, behaviorLookup>>

(***************************************************************************)
(* The state after construction.  The first factories are the ones the     *)
(* callers construct themselves (new ViewFactory(name, template)) to pass   *)
(* as default factories.                                                   *)
(***************************************************************************)
CallerFactories ==
  << [name |-> Str("n"), template |-> noViewTemplate, cacheSize |-> Num(0)],
     [name |-> Str("m"), template |-> noViewTemplate, cacheSize |-> Num(0)],
     [name |-> Str(""), template |-> noViewTemplate, cacheSize |-> Num(0)],
     [name |-> Undefined, template |-> noViewTemplate, cacheSize |-> Num(0)] >>

EngineInit(templateCompilers, created) ==
  /\ compilers = CompilerRegistry(templateCompilers)
  /\ templateLookup = <<>>
  /\ factoryLookup = <<>>
  /\ behaviorLookup = <<>>
  /\ templates = <<>>
  /\ factories = CallerFactories
  /\ contexts = created
  /\ invoked = [k \in Steps \X DefIds |-> 0]
  /\ returned = [k \in EntryPoints \X DefIds |-> {}]

\* the renderables and list nodes there are
RenderableIds == {1, 2}
NodeIds == {1, 2, 3}
ListKinds == {"bind", "attach"}

ListInit ==
  /\ renderables = [r \in RenderableIds |->
        [bindableHead |-> Null, bindableTail |-> Null,
         attachableHead |-> Null, attachableTail |-> Null]]
  /\ nodes = [n \in NodeIds |->
        [prevBind |-> Null, nextBind |-> Null,
         prevAttach |-> Null, nextAttach |-> Null]]
  /\ added = [k \in ListKinds \X RenderableIds |-> <<>>]

\* a renderable before any template has rendered it, and NodeSequence.empty
Unrendered == [nodes |-> Undefined, context |-> Undefined]
NodeSequenceEmpty == Ref("nodes", 0)

\* the template payloads that give a definition no view
NoViewPayloads == {Undefined, Null, Str("")}

RenderInit ==
  /\ rendered = [r \in RenderableIds |-> Unrendered]
  /\ sequences = 0

BehaviorInit ==
  /\ behaviors = <<>>
  /\ applied = <<>>

ProviderInit ==
  /\ ip = IP_new
  /\ ipHistory = [last |-> "new"]
  /\ vfp = VFP_new
  /\ vfpHistory = [last |-> "new"]

Init ==
  /\ payload = Undefined
  /\ RenderInit
  /\ \E templateCompilers \in CompilerLists : EngineInit(templateCompilers, <<>>)
  /\ ProviderInit
  /\ ListInit
  /\ BehaviorInit
  /\ call = [op |-> "new"]
  /\ ret = Undefined

ContextRefs == {Ref("context", i) : i \in DOMAIN contexts}

GetElementTemplate ==
  \E definition \in {Undefined, Null} \cup FullDefRefs,
     componentType \in {Undefined} \cup ComponentTypes :
    /\ getElementTemplate(definition, componentType)
    /\ UNCHANGED providerVars
    /\ UNCHANGED <<listVars, renderVars, behaviorVars>>
    /\ call' = [op |-> "getElementTemplate", definition |-> definition,
                componentType |-> componentType]

GetViewFactory ==
  \E definition \in {Undefined, Null} \cup DefRefs,
     parentContext \in {Undefined} \cup ContextRefs :
    /\ getViewFactory(definition, parentContext)
    /\ UNCHANGED providerVars
    /\ UNCHANGED <<listVars, renderVars, behaviorVars>>
    /\ call' = [op |-> "getViewFactory", definition |-> definition,
                parentContext |-> parentContext]

Next == GetElementTemplate \/ GetViewFactory

Spec == Init /\ [][Next]_vars

\* resolve asking the engine with the root container in place of the requestor
VFP_resolve_RootRequestor(p, requestor) ==
  LET found == VFP_lookup(p) IN
  IF found.kind = "replacement"
    THEN getViewFactory(found.value, RootContainer)
    ELSE ret' = found.value /\ UNCHANGED engineVars

(***************************************************************************)
(* ViewFactoryProvider.resolve(handler, requestor)                         *)
(***************************************************************************)
VFP_resolve(p, requestor) ==
  LET found == VFP_lookup(p) IN
  IF found.kind = "replacement"
    THEN getViewFactory(found.value, requestor)
    ELSE ret' = found.value /\ UNCHANGED engineVars

(***************************************************************************)
(* The operations of an InstanceProvider and of a ViewFactoryProvider      *)
(* held directly.                                                          *)
(***************************************************************************)
PrepareValues == {Undefined, Null, Ref("node", 1), Ref("node", 2)}

PartsChoices ==
  {Undefined,
   Parts({<<"n", Ref("def", 4)>>}),
   Parts({<<"m", Ref("def", 2)>>})}

FactoryRefs == {Ref("factory", i) : i \in DOMAIN factories}

IPPrepare ==
  \E instance \in PrepareValues :
    /\ ip' = IP_prepare(ip, instance)
    /\ ipHistory' = [last |-> "prepare", instance |-> instance]
    /\ UNCHANGED <<listVars, renderVars, behaviorVars>>
    /\ call' = [op |-> "InstanceProvider.prepare", instance |-> instance]
    /\ ret' = Undefined
    /\ UNCHANGED <<engineVars, vfp, vfpHistory>>

IPResolve ==
  /\ ret' = IP_resolve(ip)
  /\ UNCHANGED <<listVars, renderVars, behaviorVars>>
  /\ call' = [op |-> "InstanceProvider.resolve"]
  /\ UNCHANGED <<engineVars, providerVars>>

IPDispose ==
  /\ ip' = IP_dispose(ip)
  /\ ipHistory' = [last |-> "dispose"]
  /\ UNCHANGED <<listVars, renderVars, behaviorVars>>
  /\ call' = [op |-> "InstanceProvider.dispose"]
  /\ ret' = Undefined
  /\ UNCHANGED <<engineVars, vfp, vfpHistory>>

VFPPrepare ==
  \E factory \in FactoryRefs, parts \in PartsChoices :
    /\ vfp' = VFP_prepare(vfp, factory, parts)
    /\ vfpHistory' = [last |-> "prepare", factory |-> factory, parts |-> parts]
    /\ UNCHANGED <<listVars, renderVars, behaviorVars>>
    /\ call' = [op |-> "ViewFactoryProvider.prepare", factory |-> factory,
                parts |-> parts]
    /\ ret' = Undefined
    /\ UNCHANGED <<engineVars, ip, ipHistory>>

VFPResolve ==
  \E requestor \in {RootContainer} \cup ContextRefs :
    /\ VFP_resolve(vfp, requestor)
    /\ UNCHANGED <<listVars, renderVars, behaviorVars>>
    /\ call' = [op |-> "ViewFactoryProvider.resolve", requestor |-> requestor]
    /\ UNCHANGED providerVars

VFPDispose ==
  /\ vfp' = VFP_dispose(vfp)
  /\ vfpHistory' = [last |-> "dispose"]
  /\ UNCHANGED <<listVars, renderVars, behaviorVars>>
  /\ call' = [op |-> "ViewFactoryProvider.dispose"]
  /\ ret' = Undefined
  /\ UNCHANGED <<engineVars, ip, ipHistory>>

NextProvider ==
  IPPrepare \/ IPResolve \/ IPDispose \/ VFPPrepare \/ VFPResolve \/ VFPDispose

SpecProvider == Init /\ [][NextProvider]_vars

(***************************************************************************)
(* The two entry points of the engine together with the replacement        *)
(* lookups of a ViewFactoryProvider, on an engine that has both compilers. *)
(***************************************************************************)
NextLookups == GetElementTemplate \/ VFPPrepare \/ VFPResolve

InitLookups ==
  /\ payload = Undefined
  /\ RenderInit
  /\ EngineInit(<<"default", "aot">>, <<>>)
  /\ ProviderInit
  /\ ListInit
  /\ BehaviorInit
  /\ call = [op |-> "new"]
  /\ ret = Undefined

SpecLookups == InitLookups /\ [][NextLookups]_vars

(***************************************************************************)
(* The render context: beginComponentOperation, dispose, and the           *)
(* resolution of the five keys its providers are registered for.           *)
(***************************************************************************)
beginComponentOperation(ctx, renderable, target, instruction, factory, parts, location) ==
  [ctx EXCEPT
     !.renderableProvider = IP_prepare(@, renderable),
     !.elementProvider = IP_prepare(@, target),
     !.instructionProvider = IP_prepare(@, instruction),
     !.factoryProvider = IF ~Falsy(factory) THEN VFP_prepare(@, factory, parts) ELSE @,
     !.renderLocationProvider = IF ~Falsy(location) THEN IP_prepare(@, location) ELSE @]

\* dispose that also empties what is registered in the context
contextDispose_ClearsRegistrations(ctx) ==
  [ctx EXCEPT
     !.factoryProvider = VFP_dispose(@),
     !.renderableProvider = IP_dispose(@),
     !.instructionProvider = IP_dispose(@),
     !.elementProvider = IP_dispose(@),
     !.renderLocationProvider = IP_dispose(@),
     !.registered = {}]

\* dispose without the disposal of the render location provider
contextDispose_KeepsLocation(ctx) ==
  [ctx EXCEPT
     !.factoryProvider = VFP_dispose(@),
     !.renderableProvider = IP_dispose(@),
     !.instructionProvider = IP_dispose(@),
     !.elementProvider = IP_dispose(@)]

contextDispose(ctx) ==
  [ctx EXCEPT
     !.factoryProvider = VFP_dispose(@),
     !.renderableProvider = IP_dispose(@),
     !.instructionProvider = IP_dispose(@),
     !.elementProvider = IP_dispose(@),
     !.renderLocationProvider = IP_dispose(@)]

\* the keys registered by createRenderContext, the element key standing for
\* the keys of DOM.registerElementResolver
InstanceKeys == {"IRenderable", "INode", "ITargetedInstruction", "IRenderLocation"}
Keys == InstanceKeys \cup {"IViewFactory"}

InstanceProviderOf(ctx, key) ==
  CASE key = "IRenderable" -> ctx.renderableProvider
    [] key = "INode" -> ctx.elementProvider
    [] key = "ITargetedInstruction" -> ctx.instructionProvider
    [] key = "IRenderLocation" -> ctx.renderLocationProvider

\* context.get(key): the resolver registered in the context itself answers,
\* with the context as requestor
contextGet(c, key) ==
  IF key = "IViewFactory"
    THEN VFP_resolve(contexts[c].factoryProvider, Ref("context", c))
    ELSE ret' = IP_resolve(InstanceProviderOf(contexts[c], key)) /\ UNCHANGED engineVars

\* the arguments of the component operations that are begun
Operations == {1, 2}
OperationFactories == {Undefined, Ref("factory", 1)}
OperationParts == {Undefined, Parts({<<"n", Ref("def", 4)>>})}

\* beginComponentOperation with providers that all contexts share
BeginComponentOperation_SharedProviders ==
  \E c \in DOMAIN contexts, k \in Operations,
     factory \in OperationFactories, parts \in OperationParts,
     hasLocation \in BOOLEAN :
    LET location == IF hasLocation THEN Ref("location", k) ELSE Undefined IN
    /\ contexts' = [b \in DOMAIN contexts |->
          beginComponentOperation(contexts[b], Ref("renderable", k), Ref("node", k),
                                  Ref("instruction", k), factory, parts, location)]
    /\ UNCHANGED <<listVars, renderVars, behaviorVars>>
    /\ call' = [op |-> "beginComponentOperation", context |-> c, operation |-> k,
                factory |-> factory, parts |-> parts, location |-> location]
    /\ ret' = Ref("context", c)
    /\ UNCHANGED <<compilers, templateLookup, factoryLookup, behaviorLookup,
                   templates, factories, invoked, returned, providerVars>>

BeginComponentOperation ==
  \E c \in DOMAIN contexts, k \in Operations,
     factory \in OperationFactories, parts \in OperationParts,
     hasLocation \in BOOLEAN :
    LET location == IF hasLocation THEN Ref("location", k) ELSE Undefined IN
    /\ contexts' = [contexts EXCEPT ![c] =
          beginComponentOperation(@, Ref("renderable", k), Ref("node", k),
                                  Ref("instruction", k), factory, parts, location)]
    /\ UNCHANGED <<listVars, renderVars, behaviorVars>>
    /\ call' = [op |-> "beginComponentOperation", context |-> c, operation |-> k,
                factory |-> factory, parts |-> parts, location |-> location]
    /\ ret' = Ref("context", c)
    /\ UNCHANGED <<compilers, templateLookup, factoryLookup, behaviorLookup,
                   templates, factories, invoked, returned, providerVars>>

ContextDispose ==
  \E c \in DOMAIN contexts :
    /\ contexts' = [contexts EXCEPT ![c] = contextDispose(@)]
    /\ UNCHANGED <<listVars, renderVars, behaviorVars>>
    /\ call' = [op |-> "dispose", context |-> c]
    /\ ret' = Undefined
    /\ UNCHANGED <<compilers, templateLookup, factoryLookup, behaviorLookup,
                   templates, factories, invoked, returned, providerVars>>

ContextGet ==
  \E c \in DOMAIN contexts, key \in Keys :
    /\ contextGet(c, key)
    /\ UNCHANGED <<listVars, renderVars, behaviorVars>>
    /\ call' = [op |-> "get", context |-> c, key |-> key]
    /\ UNCHANGED providerVars

NextContext == BeginComponentOperation \/ ContextDispose \/ ContextGet

\* an engine and one render context created from the root container
InitContext ==
  /\ payload = Undefined
  /\ RenderInit
  /\ EngineInit(<<"default">>,
                <<NewContext(RootContainer, {Ref("resource", 1)})>>)
  /\ ProviderInit
  /\ ListInit
  /\ BehaviorInit
  /\ call = [op |-> "createRenderContext"]
  /\ ret = Ref("context", 1)

SpecContext == InitContext /\ [][NextContext]_vars

(***************************************************************************)
(* The intrusive lifecycle lists: addBindable and addAttachable.  The      *)
(* assignments are applied in the order of the code.                       *)
(***************************************************************************)
\* addBindable without the link from the old tail to the new node
addBindable_NoForwardLink(renderable, bindable) ==
  LET tail == renderables[renderable].bindableTail
      n1 == [nodes EXCEPT ![bindable].prevBind = tail]
  IN /\ nodes' = [n1 EXCEPT ![bindable].nextBind = Null]
     /\ renderables' =
          [renderables EXCEPT
             ![renderable].bindableHead =
                 IF tail = Null THEN Ref("node", bindable) ELSE @,
             ![renderable].bindableTail = Ref("node", bindable)]

addBindable(renderable, bindable) ==
  LET tail == renderables[renderable].bindableTail
      n1 == [nodes EXCEPT ![bindable].prevBind = tail]
      n2 == [n1 EXCEPT ![bindable].nextBind = Null]
  IN /\ nodes' = IF tail = Null
                   THEN n2
                   ELSE [n2 EXCEPT ![tail.id].nextBind = Ref("node", bindable)]
     /\ renderables' =
          [renderables EXCEPT
             ![renderable].bindableHead =
                 IF tail = Null THEN Ref("node", bindable) ELSE @,
             ![renderable].bindableTail = Ref("node", bindable)]

\* addAttachable without the link from the new node back to the old tail
addAttachable_NoBackLink(renderable, attachable) ==
  LET tail == renderables[renderable].attachableTail
      n2 == [nodes EXCEPT ![attachable].nextAttach = Null]
  IN /\ nodes' = IF tail = Null
                   THEN n2
                   ELSE [n2 EXCEPT ![tail.id].nextAttach = Ref("node", attachable)]
     /\ renderables' =
          [renderables EXCEPT
             ![renderable].attachableHead =
                 IF tail = Null THEN Ref("node", attachable) ELSE @,
             ![renderable].attachableTail = Ref("node", attachable)]

addAttachable(renderable, attachable) ==
  LET tail == renderables[renderable].attachableTail
      n1 == [nodes EXCEPT ![attachable].prevAttach = tail]
      n2 == [n1 EXCEPT ![attachable].nextAttach = Null]
  IN /\ nodes' = IF tail = Null
                   THEN n2
                   ELSE [n2 EXCEPT ![tail.id].nextAttach = Ref("node", attachable)]
     /\ renderables' =
          [renderables EXCEPT
             ![renderable].attachableHead =
                 IF tail = Null THEN Ref("node", attachable) ELSE @,
             ![renderable].attachableTail = Ref("node", attachable)]

TotalAdds ==
  LET RECURSIVE Sum(_)
      Sum(S) == IF S = {} THEN 0
                ELSE LET k == CHOOSE x \in S : TRUE IN Len(added[k]) + Sum(S \ {k})
  IN Sum(DOMAIN added)

AddBindable ==
  \E renderable \in RenderableIds, bindable \in NodeIds :
    /\ TotalAdds < MaxAdds
    /\ addBindable(renderable, bindable)
    /\ added' = [added EXCEPT ![<<"bind", renderable>>] = Append(@, bindable)]
    /\ call' = [op |-> "addBindable", renderable |-> renderable, node |-> bindable]
    /\ ret' = Undefined
    /\ UNCHANGED <<engineVars, providerVars, renderVars, behaviorVars>>

AddAttachable ==
  \E renderable \in RenderableIds, attachable \in NodeIds :
    /\ TotalAdds < MaxAdds
    /\ addAttachable(renderable, attachable)
    /\ added' = [added EXCEPT ![<<"attach", renderable>>] = Append(@, attachable)]
    /\ call' = [op |-> "addAttachable", renderable |-> renderable, node |-> attachable]
    /\ ret' = Undefined
    /\ UNCHANGED <<engineVars, providerVars, renderVars, behaviorVars>>

NextList == AddBindable \/ AddAttachable

InitList ==
  /\ payload = Undefined
  /\ RenderInit
  /\ EngineInit(<<"default">>, <<>>)
  /\ ProviderInit
  /\ ListInit
  /\ BehaviorInit
  /\ call = [op |-> "new"]
  /\ ret = Undefined

SpecList == InitList /\ [][NextList]_vars

\* the traversal from the head along $next: the nodes visited, and whether
\* null was reached within Cardinality(NodeIds) + 1 steps
ListHead(kind, r) == IF kind = "bind" THEN renderables[r].bindableHead
                                  ELSE renderables[r].attachableHead
ListTail(kind, r) == IF kind = "bind" THEN renderables[r].bindableTail
                                  ELSE renderables[r].attachableTail
NextOf(kind, n) == IF kind = "bind" THEN nodes[n].nextBind ELSE nodes[n].nextAttach
PrevOf(kind, n) == IF kind = "bind" THEN nodes[n].prevBind ELSE nodes[n].prevAttach

RECURSIVE Walk(_, _, _)
Walk(kind, at, fuel) ==
  IF at = Null THEN [visited |-> <<>>, ended |-> TRUE]
  ELSE IF fuel = 0 THEN [visited |-> <<>>, ended |-> FALSE]
  ELSE LET rest == Walk(kind, NextOf(kind, at.id), fuel - 1)
       IN [visited |-> <<at.id>> \o rest.visited, ended |-> rest.ended]

Traversal(kind, r) == Walk(kind, ListHead(kind, r), Cardinality(NodeIds) + 1)

(***************************************************************************)
(* ITemplate.render: CompiledTemplate.render and noViewTemplate.render.    *)
(* The renderer that CompiledTemplate.render hands the renderable to       *)
(* afterwards works on the targets of the node sequence; it is not part of *)
(* this file and assigns neither field.                                    *)
(***************************************************************************)
TemplateRefs == {Ref("template", i) : i \in DOMAIN templates}

\* template.renderContext
RenderContextOf(template) ==
  IF template = noViewTemplate THEN Null ELSE templates[template.id].renderContext

noViewTemplate_render(renderable) ==
  /\ rendered' = [rendered EXCEPT
                    ![renderable] = [nodes |-> NodeSequenceEmpty, context |-> Null]]
  /\ UNCHANGED sequences

\* render with a factory that hands out one node sequence again and again
CompiledTemplate_render_SharedSequence(template, renderable) ==
  /\ sequences < MaxSequences
  /\ sequences' = sequences + 1
  /\ rendered' = [rendered EXCEPT
                    ![renderable] = [nodes |-> Ref("nodes", 1),
                                     context |-> RenderContextOf(template)]]

CompiledTemplate_render(template, renderable) ==
  /\ sequences < MaxSequences
  /\ sequences' = sequences + 1
  /\ rendered' = [rendered EXCEPT
                    ![renderable] = [nodes |-> Ref("nodes", sequences + 1),
                                     context |-> RenderContextOf(template)]]

Render ==
  \E template \in {noViewTemplate} \cup TemplateRefs, renderable \in RenderableIds :
    /\ IF template = noViewTemplate
         THEN noViewTemplate_render(renderable)
         ELSE CompiledTemplate_render(template, renderable)
    /\ call' = [op |-> "render", template |-> template, renderable |-> renderable]
    /\ ret' = Undefined
    /\ UNCHANGED <<engineVars, providerVars, listVars, behaviorVars, payload>>

NextRender == GetElementTemplate \/ Render

\* an engine, and a definition 3 written with any of the payloads without view
InitRender ==
  /\ payload \in NoViewPayloads
  /\ RenderInit
  /\ \E templateCompilers \in CompilerLists : EngineInit(templateCompilers, <<>>)
  /\ ProviderInit
  /\ ListInit
  /\ BehaviorInit
  /\ call = [op |-> "new"]
  /\ ret = Undefined

SpecRender == InitRender /\ [][NextRender]_vars

(***************************************************************************)
(* RenderingEngine.applyRuntimeBehavior.  RuntimeBehavior.create(Type,     *)
(* instance) yields a new behavior, recorded with the arguments it was     *)
(* created from; found.applyTo(instance, changeSet) is recorded in applied *)
(* with the Type of the call.                                              *)
(***************************************************************************)
BehaviorTypes == {Ref("type", 1), Ref("type", 2)}
Instances == {Ref("instance", 1), Ref("instance", 2), Ref("instance", 3)}

\* this.behaviorLookup.set(Type, found)
BehaviorLookupSet_Dropped(Type, id) == behaviorLookup
BehaviorLookupSet(Type, id) == (Type.id :> id) @@ behaviorLookup

applyRuntimeBehavior(Type, instance) ==
  LET hit == Type.id \in DOMAIN behaviorLookup
      found == IF hit THEN behaviorLookup[Type.id] ELSE Len(behaviors) + 1
  IN /\ IF hit
          THEN UNCHANGED <<behaviors, behaviorLookup>>
          ELSE /\ behaviors' = Append(behaviors, [Type |-> Type, instance |-> instance])
               /\ behaviorLookup' = BehaviorLookupSet(Type, found)
     /\ applied' = Append(applied, [Type |-> Type, instance |-> instance,
                                    behavior |-> Ref("behavior", found)])

ApplyRuntimeBehavior ==
  \E Type \in BehaviorTypes, instance \in Instances :
    /\ Len(applied) < MaxApplies
    /\ applyRuntimeBehavior(Type, instance)
    /\ call' = [op |-> "applyRuntimeBehavior", Type |-> Type, instance |-> instance]
    /\ ret' = Undefined
    /\ UNCHANGED <<compilers, templateLookup, factoryLookup, templates, factories,
                   contexts, invoked, returned>>
    /\ UNCHANGED <<providerVars, listVars, renderVars>>

NextBehavior == ApplyRuntimeBehavior

InitBehavior ==
  /\ payload = Undefined
  /\ RenderInit
  /\ EngineInit(<<"default">>, <<>>)
  /\ ProviderInit
  /\ ListInit
  /\ BehaviorInit
  /\ call = [op |-> "new"]
  /\ ret = Undefined

SpecBehavior == InitBehavior /\ [][NextBehavior]_vars

(***************************************************************************)
(* The properties checked                                                  *)
(***************************************************************************)
Returned(entry, d) == returned[<<entry, d>>]
Invoked(step, d) == invoked[<<step, d>>]

\* C1: over any sequence of getElementTemplate calls, with or without a
\* componentType and interleaved with calls for other definitions, every call
\* for a definition returns the template instance that the first call for it
\* returned, and the compiler is invoked at most once for the definition.
C1_TemplateMemoized ==
  /\ \A d \in DefIds :
       /\ Cardinality(Returned("getElementTemplate", d)) <= 1
       /\ Invoked("compile:getElementTemplate", d) <= 1
  /\ (call.op = "getElementTemplate" /\ ~Falsy(call.definition) /\ ~IsThrow(ret))
       => /\ ret.t = "template"
          /\ Returned("getElementTemplate", call.definition.id) = {ret.id}

\* a call with a componentType answered from the cache: the template was built
\* by an earlier call without it, and another definition was compiled since
C1_Witness ==
  /\ call.op = "getElementTemplate"
  /\ call.definition = Ref("def", 1)
  /\ call.componentType \in ComponentTypes
  /\ ret = Ref("template", 1)
  /\ call.componentType \notin contexts[templates[1].renderContext.id].registered
  /\ Invoked("compile:getElementTemplate", 1) = 1
  /\ 2 \in DOMAIN templateLookup
  /\ templateLookup[2] = 2

\* C2 as stated: every getViewFactory call for a definition returns the
\* ViewFactory the first call returned, whatever parentContext is passed, and
\* normalization, compilation and factory construction happen at most once
\* for the definition.
C2_Original ==
  /\ \A d \in DefIds :
       /\ Cardinality(Returned("getViewFactory", d)) <= 1
       /\ Invoked("buildTemplateDefinition", d) <= 1
       /\ Invoked("compile:getViewFactory", d) <= 1
       /\ Invoked("new ViewFactory", d) <= 1
  /\ (call.op = "getViewFactory" /\ ~Falsy(call.definition) /\ ~IsThrow(ret))
       => /\ ret.t = "factory"
          /\ Returned("getViewFactory", call.definition.id) = {ret.id}

\* C2, amended: every getViewFactory call for a definition that returns,
\* returns the ViewFactory the first returned, whatever parentContext is
\* passed; compilation and factory construction happen at most once for the
\* definition; normalization happens once per call that misses the cache,
\* which is at most once among the calls that return and once more in every
\* call that fails, a failed call caching nothing.
C2_FactoryMemoized ==
  /\ \A d \in DefIds :
       /\ Cardinality(Returned("getViewFactory", d)) <= 1
       /\ Invoked("compile:getViewFactory", d) <= 1
       /\ Invoked("new ViewFactory", d) <= 1
       /\ Invoked("buildTemplateDefinition", d) =
            Invoked("throw:getViewFactory", d)
              + (IF d \in DOMAIN factoryLookup THEN 1 ELSE 0)
       /\ d \in DOMAIN factoryLookup => Invoked("throw:getViewFactory", d) = 0
  /\ (call.op = "getViewFactory" /\ ~Falsy(call.definition) /\ ~IsThrow(ret))
       => /\ ret.t = "factory"
          /\ Returned("getViewFactory", call.definition.id) = {ret.id}

\* a call with a parentContext answered from the cache: the factory returned
\* was built once, under another parent
C2_Witness ==
  /\ call.op = "getViewFactory"
  /\ call.definition = Ref("def", 1)
  /\ call.parentContext # Undefined
  /\ 1 \in DOMAIN factoryLookup
  /\ ret = Ref("factory", factoryLookup[1])
  /\ contexts[templates[factories[ret.id].template.id].renderContext.id].parent
       # call.parentContext
  /\ Invoked("buildTemplateDefinition", 1) = 1
  /\ Invoked("compile:getViewFactory", 1) = 1

\* C3 as stated: resolve on an InstanceProvider that is unset, because it was
\* never prepared or because dispose was called after its last prepare,
\* fails.
C3_Claim ==
  (call.op = "InstanceProvider.resolve" /\ ipHistory.last \in {"new", "dispose"})
    => IsThrow(ret)

\* C4 as stated: resolve after prepare(x) returns the x of the most recent
\* prepare, for every x including the empty value, and a provider prepared
\* with the empty value is in a state distinct from the unset state: resolve
\* succeeds on the former and fails on the latter.
C4_Claim ==
  /\ (call.op = "InstanceProvider.resolve" /\ ipHistory.last = "prepare")
       => ret = ipHistory.instance
  /\ (ipHistory.last = "prepare" /\ Falsy(ipHistory.instance))
       => /\ ip # IP_new
          /\ ip # IP_dispose(ip)
          /\ ~IsThrow(IP_resolve(ip))
          /\ IsThrow(IP_resolve(IP_new))

\* what resolving a key of a context yields, up to the engine's answer for a
\* replacement definition
Outcome(ctx, key) ==
  IF key = "IViewFactory"
    THEN VFP_lookup(ctx.factoryProvider)
    ELSE IP_resolve(InstanceProviderOf(ctx, key))

UnsetOutcome(key) ==
  IF key = "IViewFactory"
    THEN [kind |-> "throw", value |-> ReporterError(50, Undefined)]
    ELSE ReporterError(50, Undefined)

\* C5 as stated: beginComponentOperation followed by dispose leaves all five
\* providers of the context unset, and a beginComponentOperation after that
\* dispose behaves as the same call on a freshly created context: resolving
\* each of the five keys yields the same value or the same failure in both.
C5_Claim ==
  [][ /\ ( /\ call.op = "beginComponentOperation"
           /\ call'.op = "dispose"
           /\ call'.context = call.context )
         => \A key \in Keys :
              Outcome(contexts'[call.context], key) = UnsetOutcome(key)
      /\ ( /\ call.op = "dispose"
           /\ call'.op = "beginComponentOperation"
           /\ call'.context = call.context )
         => \A key \in Keys :
              Outcome(contexts'[call.context], key)
                = Outcome(beginComponentOperation(
                            NewContext(RootContainer, {}),
                            Ref("renderable", call'.operation),
                            Ref("node", call'.operation),
                            Ref("instruction", call'.operation),
                            call'.factory, call'.parts, call'.location), key)
    ]_vars

\* the compiler a definition names, and whether a definition has a template,
\* requires a build and names a compiler that is not registered
CompilerNameOf(def) ==
  IF Falsy(def.build.compiler) THEN defaultCompilerName ELSE def.build.compiler

NeedsUnregisteredCompiler(d) ==
  /\ ~Falsy(DefTable[d].template)
  /\ DefTable[d].build # Undefined
  /\ DefTable[d].build.required
  /\ CompilerNameOf(DefTable[d]).s \notin compilers

\* C6: for a ViewFactoryProvider prepared with a default factory F named n and
\* a parts map P, resolve returns the engine's ViewFactory built from P[n],
\* not F, when P has a replacement definition for n, and returns F itself
\* when P has no entry for n or no parts map was given.  The only failure of
\* such a resolve is the engine's own, for a replacement whose compiler is
\* not registered.
C6_ReplacementPrecedence ==
  ( /\ call.op = "ViewFactoryProvider.resolve"
    /\ vfpHistory.last = "prepare"
    /\ ~Falsy(factories[vfpHistory.factory.id].name) )
  => LET F == vfpHistory.factory
         n == factories[F.id].name.s
         P == vfpHistory.parts
         replaced == P # Undefined /\ \E e \in P.entries : e[1] = n
     IN IF replaced
          THEN LET R == (CHOOSE e \in P.entries : e[1] = n)[2] IN
               IF IsThrow(ret)
                 THEN /\ NeedsUnregisteredCompiler(R.id)
                      /\ ret = ReporterError(20, CompilerNameOf(DefTable[R.id]))
                 ELSE /\ ret.t = "factory"
                      /\ ret # F
                      /\ R.id \in DOMAIN factoryLookup
                      /\ ret.id = factoryLookup[R.id]
                      /\ Returned("getViewFactory", R.id) = {ret.id}
                      /\ factories[ret.id].name = Normalize(DefTable[R.id]).name
                      /\ Invoked("new ViewFactory", R.id) = 1
          ELSE ret = F

\* resolve answered with the engine's factory for the replacement of "n"
C6_Witness ==
  /\ call.op = "ViewFactoryProvider.resolve"
  /\ vfpHistory.last = "prepare"
  /\ vfpHistory.factory = Ref("factory", 1)
  /\ vfpHistory.parts = Parts({<<"n", Ref("def", 4)>>})
  /\ 4 \in DOMAIN factoryLookup
  /\ ret = Ref("factory", factoryLookup[4])
  /\ ret # vfpHistory.factory

\* C7 as stated: ViewFactoryProvider.resolve fails with the
\* uninitialized-provider error whenever the provider is unset (never
\* prepared, or disposed since the last prepare), and with the distinct
\* invalid-name error whenever it is prepared with a default factory whose
\* name is empty or absent, even if a parts map is present.
C7_Claim ==
  call.op = "ViewFactoryProvider.resolve" =>
    /\ vfpHistory.last \in {"new", "dispose"} => ret = ReporterError(50, Undefined)
    /\ ( /\ vfpHistory.last = "prepare"
         /\ Falsy(factories[vfpHistory.factory.id].name) )
         => ret = ReporterError(51, Undefined)

\* C8: for a renderable whose list is initially empty and distinct nodes
\* n1..nk added to it in that order, the traversal from the head along $next
\* yields exactly n1..nk and then null, the tail is nk, n1.$prev is null and
\* every other node's $prev is its predecessor; for the bind list and for
\* the attach list alike.
Distinct(seq) == \A i, j \in DOMAIN seq : i # j => seq[i] # seq[j]
Elements(seq) == {seq[i] : i \in DOMAIN seq}

\* the nodes added to the list of r are distinct and in no other list of the kind
OwnsItsNodes(kind, r) ==
  /\ Distinct(added[<<kind, r>>])
  /\ \A q \in RenderableIds \ {r} :
       Elements(added[<<kind, r>>]) \cap Elements(added[<<kind, q>>]) = {}

C8_ListOrdering ==
  \A kind \in ListKinds, r \in RenderableIds :
    OwnsItsNodes(kind, r) =>
      LET ns == added[<<kind, r>>] IN
      /\ Traversal(kind, r) = [visited |-> ns, ended |-> TRUE]
      /\ ListTail(kind, r) = IF ns = <<>> THEN Null ELSE Ref("node", ns[Len(ns)])
      /\ \A i \in DOMAIN ns :
           PrevOf(kind, ns[i]) = IF i = 1 THEN Null ELSE Ref("node", ns[i - 1])

\* three nodes added to the bind list of one renderable, not in the order of
\* their ids, while another renderable holds a node in its attach list
C8_Witness ==
  /\ added[<<"bind", 1>>] = <<2, 3, 1>>
  /\ added[<<"attach", 2>>] = <<3>>
  /\ Traversal("bind", 1).visited = <<2, 3, 1>>

\* C9: when a definition has a template and requires a build, and the
\* compiler it names ('default' when it names none) is not registered,
\* getElementTemplate and getViewFactory fail reporting that name; the
\* compiler is not invoked and nothing is added to the template or the
\* factory cache, so a later identical call fails the same way.
C9_UnknownCompilerFails ==
  \A d \in DefIds :
    NeedsUnregisteredCompiler(d) =>
      /\ d \notin DOMAIN templateLookup
      /\ d \notin DOMAIN factoryLookup
      /\ Invoked("compile:getElementTemplate", d) = 0
      /\ Invoked("compile:getViewFactory", d) = 0
      /\ Returned("getElementTemplate", d) = {}
      /\ Returned("getViewFactory", d) = {}
      /\ (call.op \in EntryPoints /\ call.definition = Ref("def", d))
           => ret = ReporterError(20, CompilerNameOf(DefTable[d]))

\* getViewFactory failed a second time for the definition that names no
\* compiler, in an engine without the default compiler
C9_Witness ==
  /\ "default" \notin compilers
  /\ call.op = "getViewFactory"
  /\ call.definition = Ref("def", 1)
  /\ ret = ReporterError(20, Str("default"))
  /\ Invoked("throw:getViewFactory", 1) = 2

\* C10: getElementTemplate and getViewFactory called with a falsy definition
\* return null, invoke neither normalization nor the compiler, and leave
\* templateLookup, factoryLookup and behaviorLookup unchanged.
C10_FalsyDefinition ==
  [][ (call'.op \in EntryPoints /\ Falsy(call'.definition))
        => /\ ret' = Null
           /\ UNCHANGED <<templateLookup, factoryLookup, behaviorLookup, invoked,
                          templates, factories, contexts>>
    ]_vars

\* getViewFactory(undefined) answered null by an engine whose caches hold
\* entries
C10_Witness ==
  /\ call.op = "getViewFactory"
  /\ call.definition = Undefined
  /\ ret = Null
  /\ DOMAIN templateLookup # {}
  /\ DOMAIN factoryLookup # {}

\* the definitions without view
NoViewDefIds == {d \in DefIds : Falsy(DefTable[d].template)}

\* C11: for a definition whose template is empty or absent, whatever its other
\* fields (a build required from a compiler that is not registered, declared
\* dependencies) and whatever componentType is passed, getElementTemplate
\* returns the no-view template without invoking the compiler or failing;
\* that template has a null render context, and its render sets the
\* renderable's $nodes to the empty node sequence and its $context to null.
C11_NoViewTemplate ==
  /\ \A d \in NoViewDefIds :
       /\ Invoked("compile:getElementTemplate", d) = 0
       /\ Returned("getElementTemplate", d) \subseteq {noViewTemplate.id}
       /\ (call.op = "getElementTemplate" /\ call.definition = Ref("def", d))
            => ret = noViewTemplate
  /\ RenderContextOf(noViewTemplate) = Null
  /\ (call.op = "render" /\ call.template = noViewTemplate)
       => rendered[call.renderable] = [nodes |-> NodeSequenceEmpty, context |-> Null]

\* the no-view template, cached for a definition with the empty string as
\* template and a build required from a compiler that is not registered,
\* rendered a renderable that a compiled template had rendered before
C11_Witness ==
  /\ payload = Str("")
  /\ DefTable[3].build.required
  /\ DefTable[3].build.compiler.s \notin compilers
  /\ 3 \in DOMAIN templateLookup
  /\ templateLookup[3] = noViewTemplate.id
  /\ call.op = "render"
  /\ call.template = noViewTemplate
  /\ rendered[call.renderable] = [nodes |-> NodeSequenceEmpty, context |-> Null]
  /\ sequences > 0
  /\ \A r \in RenderableIds : rendered[r].context = Null

FirstApply(Type) ==
  CHOOSE i \in DOMAIN applied :
    /\ applied[i].Type = Type
    /\ \A j \in DOMAIN applied : applied[j].Type = Type => i <= j

\* C13: applyRuntimeBehavior creates at most one RuntimeBehavior per type over
\* any sequence of calls, built on the first call for that type from that
\* call's instance, and every call applyRuntimeBehavior(Type, instance)
\* applies that type's single behavior to the given instance, the first call
\* included.
C13_OneBehaviorPerType ==
  /\ \A a, b \in DOMAIN behaviors : behaviors[a].Type = behaviors[b].Type => a = b
  /\ Len(behaviors) = Cardinality({applied[i].Type : i \in DOMAIN applied})
  /\ \A i \in DOMAIN applied :
       LET first == applied[FirstApply(applied[i].Type)]
           found == applied[i].behavior.id
       IN /\ found \in DOMAIN behaviors
          /\ applied[i].behavior = first.behavior
          /\ behaviors[found] = [Type |-> applied[i].Type, instance |-> first.instance]
          /\ applied[i].Type.id \in DOMAIN behaviorLookup
          /\ behaviorLookup[applied[i].Type.id] = found
  /\ call.op = "applyRuntimeBehavior"
       => /\ applied # <<>>
          /\ applied[Len(applied)].Type = call.Type
          /\ applied[Len(applied)].instance = call.instance

\* three calls: the behavior of type 1, created from the first call's
\* instance, is applied to another instance after a behavior was created for
\* type 2
C13_Witness ==
  /\ Len(applied) = 3
  /\ applied[1].Type = Ref("type", 1)
  /\ applied[2].Type = Ref("type", 2)
  /\ applied[3].Type = Ref("type", 1)
  /\ applied[3].instance # applied[1].instance
  /\ applied[3].behavior = applied[1].behavior
  /\ Len(behaviors) = 2

\* whether the provider was last prepared with a default factory for whose
\* name the parts map holds a replacement, and that replacement definition
Replaced ==
  /\ vfpHistory.last = "prepare"
  /\ ~Falsy(factories[vfpHistory.factory.id].name)
  /\ vfpHistory.parts # Undefined
  /\ \E e \in vfpHistory.parts.entries :
       e[1] = factories[vfpHistory.factory.id].name.s

Replacement ==
  (CHOOSE e \in vfpHistory.parts.entries :
     e[1] = factories[vfpHistory.factory.id].name.s)[2]

\* C14 as stated: when a replacement definition R exists for the default
\* factory's name, resolve called from requesting context C returns a
\* ViewFactory for R whose template's render context is a child of C, for
\* every C, also when R was requested earlier from a different context.
C14_Original ==
  ( /\ call.op = "ViewFactoryProvider.resolve"
    /\ Replaced
    /\ ~IsThrow(ret) )
  => /\ ret.t = "factory"
     /\ Replacement.id \in DOMAIN factoryLookup
     /\ ret.id = factoryLookup[Replacement.id]
     /\ LET template == factories[ret.id].template
        IN template # noViewTemplate
             => contexts[RenderContextOf(template).id].parent = call.requestor

\* C14, amended: such a resolve returns the engine's one ViewFactory for R.
\* When the resolve is the first request for R, the factory is built in it and
\* its template's render context is a child of the requesting context C; when
\* R was requested before, from whatever context, the factory cached then is
\* returned as it is, and no template or context is created.
C14_ScopedToFirstRequestor ==
  [][ ( /\ call'.op = "ViewFactoryProvider.resolve"
        /\ Replaced
        /\ ~IsThrow(ret') )
      => LET R == Replacement.id IN
         /\ ret'.t = "factory"
         /\ R \in DOMAIN factoryLookup'
         /\ ret'.id = factoryLookup'[R]
         /\ IF R \notin DOMAIN factoryLookup
              THEN LET template == factories'[ret'.id].template
                   IN template # noViewTemplate
                        => contexts'[templates'[template.id].renderContext.id].parent
                             = call'.requestor
              ELSE /\ ret'.id = factoryLookup[R]
                   /\ UNCHANGED <<factoryLookup, factories, templates, contexts>>
    ]_vars

\* resolve from the context of the replacement's own template answered with
\* the factory built for an earlier resolve from the root container
C14_Witness ==
  /\ call.op = "ViewFactoryProvider.resolve"
  /\ Replaced
  /\ Replacement = Ref("def", 4)
  /\ call.requestor = Ref("context", 1)
  /\ 4 \in DOMAIN factoryLookup
  /\ ret = Ref("factory", factoryLookup[4])
  /\ factories[ret.id].template = Ref("template", 1)
  /\ contexts[1].parent = RootContainer
  /\ Invoked("new ViewFactory", 4) = 1

\* a context as createRenderContext made it, and a context as dispose leaves it
Fresh(ctx) == ctx = NewContext(ctx.parent, ctx.registered)
Disposed(ctx) == ctx = contextDispose(ctx)

\* what resolving a key yields when only the arguments of the begin call a
\* are seen: the argument itself, null for an omitted location, a failure
\* for an omitted factory
OwnOutcome(a, key, outcome) ==
  CASE key = "IRenderable" -> outcome = Ref("renderable", a.operation)
    [] key = "INode" -> outcome = Ref("node", a.operation)
    [] key = "ITargetedInstruction" -> outcome = Ref("instruction", a.operation)
    [] key = "IRenderLocation" ->
         outcome = IF Falsy(a.location) THEN Null ELSE a.location
    [] key = "IViewFactory" ->
         IF Falsy(a.factory)
           THEN outcome.kind = "throw"
           ELSE outcome = VFP_lookup(VFP_prepare(VFP_new, a.factory, a.parts))

\* C15: if on a context every beginComponentOperation is followed by
\* dispose() before the next beginComponentOperation, resolving any of the
\* five keys during an operation never yields a value passed to an earlier
\* operation's begin call, also when the current call omits the factory or
\* the location.  Under that discipline a begin call finds the context as it
\* was created or as dispose left it; what the five keys yield after it is
\* then fixed by its own arguments, and no resolution changes the providers
\* of any context while the operation lasts.
C15_NoLeakUnderDiscipline ==
  [][ /\ ( /\ call'.op = "beginComponentOperation"
           /\ Fresh(contexts[call'.context]) \/ Disposed(contexts[call'.context]) )
         => \A key \in Keys :
              OwnOutcome(call', key, Outcome(contexts'[call'.context], key))
      /\ call'.op = "get"
         => \A c \in DOMAIN contexts : contexts'[c] = contexts[c]
    ]_vars

\* operation 2 was begun without factory and location on a disposed context
\* on which an earlier operation had resolved the replacement of its factory
C15_Witness ==
  /\ call.op = "beginComponentOperation"
  /\ call.context = 1
  /\ call.operation = 2
  /\ call.factory = Undefined
  /\ call.location = Undefined
  /\ contexts[1].factoryProvider = VFP_dispose(VFP_new)
  /\ 4 \in DOMAIN factoryLookup
  /\ Outcome(contexts[1], "IRenderLocation") = Null
  /\ Outcome(contexts[1], "IRenderable") = Ref("renderable", 2)

\* the compiler calls made for a definition, through either entry point
Compiles(d) ==
  Invoked("compile:getElementTemplate", d) + Invoked("compile:getViewFactory", d)

\* C16 as stated: over any sequence mixing getElementTemplate(D),
\* getViewFactory(D) and replacement lookups that resolve to D, the compiler
\* is invoked at most once for D, replaceable-part overrides and top-level
\* templates sharing one cache.
C16_Original == \A d \in DefIds : Compiles(d) <= 1

\* C16, amended: the compiler is invoked for D at most once by
\* getElementTemplate, which caches in templateLookup, and at most once by
\* getViewFactory and the replacement lookups together, which cache in
\* factoryLookup: at most twice in all.  When both have compiled D, the
\* template of the one cache and the template of the other's factory are
\* two CompiledTemplate instances.
C16_OneCompilePerCache ==
  \A d \in DefIds :
    /\ Invoked("compile:getElementTemplate", d) <= 1
    /\ Invoked("compile:getViewFactory", d) <= 1
    /\ Compiles(d) <= 2
    /\ Invoked("compile:getElementTemplate", d) = 1
         => /\ d \in DOMAIN templateLookup
            /\ Ref("template", templateLookup[d]) \in TemplateRefs
    /\ Invoked("compile:getViewFactory", d) = 1
         => /\ d \in DOMAIN factoryLookup
            /\ factories[factoryLookup[d]].template \in TemplateRefs
    /\ Compiles(d) = 2
         => factories[factoryLookup[d]].template # Ref("template", templateLookup[d])

\* a replacement lookup answered with a factory for definition 2, which was
\* compiled for it although getElementTemplate had compiled definition 2
\* before
C16_Witness ==
  /\ call.op = "ViewFactoryProvider.resolve"
  /\ Replaced
  /\ Replacement = Ref("def", 2)
  /\ 2 \in DOMAIN factoryLookup
  /\ ret = Ref("factory", factoryLookup[2])
  /\ 2 \in DOMAIN templateLookup
  /\ templateLookup[2] = 1
  /\ factories[ret.id].template = Ref("template", 2)
  /\ Compiles(2) = 2

\* C17: for two distinct contexts A and B, any interleaving of
\* beginComponentOperation and dispose on A leaves what resolving each of the
\* five keys on B yields unchanged, the engine's answer for a replacement
\* included; the operation begun on A sees its own renderable, element and
\* instruction.
C17_ContextsIndependent ==
  [][ call'.op \in {"beginComponentOperation", "dispose"}
      => /\ \A B \in DOMAIN contexts \ {call'.context} :
              /\ contexts'[B] = contexts[B]
              /\ \A key \in Keys :
                   Outcome(contexts'[B], key) = Outcome(contexts[B], key)
         /\ DOMAIN contexts' = DOMAIN contexts
         /\ UNCHANGED <<templateLookup, factoryLookup, templates, factories>>
         /\ call'.op = "beginComponentOperation"
              => \A key \in {"IRenderable", "INode", "ITargetedInstruction"} :
                   OwnOutcome(call', key, Outcome(contexts'[call'.context], key))
    ]_vars

\* operation 2 was begun on context 2 while operation 1 is in flight on
\* context 1: each context yields its own renderable and location
C17_Witness ==
  /\ DOMAIN contexts = {1, 2}
  /\ call.op = "beginComponentOperation"
  /\ call.context = 2
  /\ call.operation = 2
  /\ Outcome(contexts[1], "IRenderable") = Ref("renderable", 1)
  /\ Outcome(contexts[1], "IRenderLocation") = Ref("location", 1)
  /\ Outcome(contexts[1], "IViewFactory").kind = "replacement"
  /\ Outcome(contexts[2], "IRenderable") = Ref("renderable", 2)
  /\ Outcome(contexts[2], "IRenderLocation") = Null
  /\ Outcome(contexts[2], "IViewFactory").kind = "throw"

\* a list of a renderable is well formed: the traversal from its head ends,
\* visits no node twice and visits exactly the nodes added to it; the head
\* has no $prev, the tail is the last node visited and has no $next, and
\* n.$next.$prev = n for every node visited that has a successor
WellFormed(kind, r) ==
  LET walk == Traversal(kind, r)
      ns == walk.visited
  IN /\ walk.ended
     /\ Distinct(ns)
     /\ Elements(ns) = Elements(added[<<kind, r>>])
     /\ IF ns = <<>>
          THEN ListHead(kind, r) = Null /\ ListTail(kind, r) = Null
          ELSE /\ PrevOf(kind, ns[1]) = Null
               /\ ListTail(kind, r) = Ref("node", ns[Len(ns)])
               /\ NextOf(kind, ns[Len(ns)]) = Null
     /\ \A i \in DOMAIN ns :
          NextOf(kind, ns[i]) # Null
            => PrevOf(kind, NextOf(kind, ns[i]).id) = Ref("node", ns[i])

\* no node is visited from the heads of two renderables' lists of a kind
InOneList(kind) ==
  \A r, q \in RenderableIds :
    r # q => Elements(Traversal(kind, r).visited)
               \cap Elements(Traversal(kind, q).visited) = {}

\* C18 as stated: after any sequence of addBindable and addAttachable calls
\* over any renderables and nodes, including the adding of a node that is
\* already in a list, every node belongs to at most one list of each kind and
\* appears in it at most once; each list stays acyclic with head.$prev null,
\* tail.$next null and n.$next.$prev = n, so the traversal from head to tail
\* terminates and visits each added node once.
C18_Original ==
  \A kind \in ListKinds :
    /\ InOneList(kind)
    /\ \A r \in RenderableIds : WellFormed(kind, r)

\* no node was added twice to the lists of a kind
NeverReAdded(kind) == \A r \in RenderableIds : OwnsItsNodes(kind, r)

\* C18, amended: after any sequence of addBindable and addAttachable calls in
\* which no node is added that was added to a list of that kind before, to
\* whichever renderable, every node belongs to at most one list of each kind
\* and appears in it once, and every list of that kind is well formed.
C18_ListsWellFormed ==
  \A kind \in ListKinds :
    NeverReAdded(kind)
      => /\ InOneList(kind)
         /\ \A r \in RenderableIds : WellFormed(kind, r)

\* the three nodes are spread over the attach lists of the two renderables,
\* none added twice, while the bind list of a renderable holds one of them
C18_Witness ==
  /\ added[<<"attach", 1>>] = <<3, 1>>
  /\ added[<<"attach", 2>>] = <<2>>
  /\ added[<<"bind", 2>>] = <<3>>
  /\ NeverReAdded("attach")
  /\ Traversal("attach", 1).visited = <<3, 1>>
  /\ Traversal("attach", 2).visited = <<2>>

WithProvidersOf(ctx, other) ==
  [ctx EXCEPT
     !.factoryProvider = other.factoryProvider,
     !.renderableProvider = other.renderableProvider,
     !.instructionProvider = other.instructionProvider,
     !.elementProvider = other.elementProvider,
     !.renderLocationProvider = other.renderLocationProvider]

\* C20: dispose() of a render context clears only the per-operation state of
\* its five providers: what is registered in the context (its dependencies
\* and a component type registered into it), its parent, every other context
\* and the engine's three caches with their templates and factories are
\* unchanged, and a beginComponentOperation that follows on the context
\* makes the keys yield the arguments it is given.  The renderer is bound to
\* the context by a const of createRenderContext, which nothing can assign.
C20_DisposeClearsOnlyProviders ==
  [][ /\ call'.op = "dispose"
         => LET c == call'.context IN
            /\ DOMAIN contexts' = DOMAIN contexts
            /\ WithProvidersOf(contexts'[c], contexts[c]) = contexts[c]
            /\ contexts'[c].registered = contexts[c].registered
            /\ \A key \in InstanceKeys : Outcome(contexts'[c], key) = Null
            /\ Outcome(contexts'[c], "IViewFactory").kind = "throw"
            /\ \A b \in DOMAIN contexts \ {c} : contexts'[b] = contexts[b]
            /\ UNCHANGED <<templateLookup, factoryLookup, behaviorLookup,
                           compilers, templates, factories>>
      /\ ( /\ call.op = "dispose"
           /\ call'.op = "beginComponentOperation"
           /\ call'.context = call.context )
         => /\ ret' = Ref("context", call'.context)
            /\ contexts'[call'.context].registered
                 = contexts[call'.context].registered
            /\ \A key \in Keys :
                 OwnOutcome(call', key, Outcome(contexts'[call'.context], key))
    ]_vars

\* context 1, in which a dependency is registered, was disposed after an
\* operation on it had the engine build the factory of a replacement, while
\* an operation is in flight on the context of that factory's template
C20_Witness ==
  /\ call.op = "dispose"
  /\ call.context = 1
  /\ contexts[1].registered = {Ref("resource", 1)}
  /\ contexts[1] = contextDispose(contexts[1])
  /\ 4 \in DOMAIN factoryLookup
  /\ DOMAIN contexts = {1, 2}
  /\ contexts[2].parent = Ref("context", 1)
  /\ Outcome(contexts[2], "IRenderable") = Ref("renderable", 2)

====
